---- MODULE Spec2Model ----
(***************************************************************************)
(* A model of the presentation / frame-synchronisation core of learn-vulkan *)
(* (namespace lvk): class Swapchain (swapchain.cpp) and the frame loop of   *)
(* class App (app.cpp), running against a Vulkan device whose presentation  *)
(* engine and queue are the environment.                                    *)
(*                                                                          *)
(* std::uint32_t values are kept as their 32-bit patterns read as signed    *)
(* integers (0xffffffff is -1), so conversions between int and uint32_t are *)
(* the identity, as in the build, and only the comparisons differ: ULess is *)
(* the unsigned one.                                                        *)
(***************************************************************************)
EXTENDS Integers, Sequences, FiniteSets, TLC

VARIABLES
    ndebug,          \* build configuration: TRUE when assert() is compiled out
    surface_caps,    \* what getSurfaceCapabilitiesKHR reports right now
    m_ci,            \* Swapchain::m_ci (imageExtent, minImageCount, oldSwapchain)
    m_swapchain,     \* Swapchain::m_swapchain, 0 is the null handle
    m_images,        \* Swapchain::m_images
    m_image_views,   \* Swapchain::m_image_views
    m_image_index,   \* Swapchain::m_image_index, std::optional: <<>> or <<i>>
    call,            \* the last Swapchain member call and how it ended
    built,           \* size and capabilities of the last recreate that returned true
    pc,              \* where the caller is
    version,         \* which App::main_loop runs: "early" (acquire, then wait) or "final"
    window_size,     \* what glfw::framebuffer_size reports right now
    m_framebuffer_size, \* App::m_framebuffer_size
    m_frame_index,   \* App::m_frame_index
    drawn,           \* RenderSync::drawn of each slot: the fence and the work behind it
    cycle,           \* what the current pass of the loop has done so far
    slots,           \* the slots of the first and of the last two queue submissions
    draw,            \* RenderSync::draw of each slot: the image-acquired semaphore
    present_sem,     \* RenderSync::present of each slot: the render-complete semaphore
    command_buffer,  \* RenderSync::command_buffer of each slot: its state and target
    image_state,     \* who owns each image of the live swapchain
    present_queue,   \* the presentation requests whose semaphore wait is outstanding
    destroyed,       \* the members of App whose destructors have run, in order
    block            \* a CommandBlock, its submission, and its caller's position

swapVars == <<m_ci, m_swapchain, m_images, m_image_views, m_image_index>>
appVars == <<version, window_size, m_framebuffer_size, m_frame_index, drawn, cycle, slots>>
syncVars == <<draw, present_sem, command_buffer, image_state, present_queue>>
vars == <<ndebug, surface_caps, m_ci, m_swapchain, m_images, m_image_views,
          m_image_index, call, built, pc, version, window_size, m_framebuffer_size,
          m_frame_index, drawn, cycle, slots,
          draw, present_sem, command_buffer, image_state, present_queue, destroyed,
          block>>

-----------------------------------------------------------------------------
(* Bounds of the model. *)

\* the presentation engine may create up to this many images above minImageCount
MaxExtraImages == 1

-----------------------------------------------------------------------------
(* Program constants. *)

min_images_v == 3
limitless_v == -1
resource_buffering_v == 2

fence_create_info_unsignaled == "unsignaled"

\* create_render_sync: vk::FenceCreateInfo{vk::FenceCreateFlagBits::eSignaled}
fence_create_info_v == "signaled"

-----------------------------------------------------------------------------
(* Values. *)

Extent2D(w, h) == [width |-> w, height |-> h]
ivec2(a, b) == [x |-> a, y |-> b]

\* a < b on std::uint32_t
ULess(a, b) == IF (a < 0) = (b < 0) THEN a < b ELSE b < 0

\* std::clamp(v, lo, hi) on std::uint32_t
clamp(v, lo, hi) == IF ULess(v, lo) THEN lo ELSE IF ULess(hi, v) THEN hi ELSE v

\* std::max(a, b) on std::uint32_t
max(a, b) == IF ULess(a, b) THEN b ELSE a

None == <<>>
Some(v) == <<v>>
has_value(o) == Len(o) > 0

\* what acquireNextImageKHR and presentKHR can return
Results == {"eSuccess", "eSuboptimalKHR", "eErrorOutOfDateKHR",
            "eErrorSurfaceLostKHR", "eErrorDeviceLost"}
\* what getSwapchainImagesKHR can return
ImagesResults == {"eSuccess", "eErrorOutOfHostMemory"}

Caps(cur, lo, hi, minCount, maxCount) ==
    [currentExtent |-> cur, minImageExtent |-> lo, maxImageExtent |-> hi,
     minImageCount |-> minCount, maxImageCount |-> maxCount]

\* capability reports: the extent is free / fixed / free within bounds / has one
\* free dimension / is zero (a minimised window); maxImageCount 0 is "no limit"
FreeCaps == Caps(Extent2D(limitless_v, limitless_v), Extent2D(1, 1),
                 Extent2D(limitless_v, limitless_v), 2, 8)
FixedCaps == Caps(Extent2D(1920, 1080), Extent2D(1920, 1080), Extent2D(1920, 1080), 2, 0)
BoundedCaps == Caps(Extent2D(limitless_v, limitless_v), Extent2D(400, 400),
                    Extent2D(1000, 500), 4, 6)
HalfFreeCaps == Caps(Extent2D(limitless_v, 600), Extent2D(400, 400),
                     Extent2D(1000, 700), 4, 0)
TwoImageCaps == Caps(Extent2D(limitless_v, limitless_v), Extent2D(1, 1),
                     Extent2D(limitless_v, limitless_v), 1, 2)
ZeroCaps == Caps(Extent2D(0, 0), Extent2D(0, 0), Extent2D(0, 0), 2, 8)
CapsSet == {FreeCaps, FixedCaps, BoundedCaps, HalfFreeCaps, TwoImageCaps, ZeroCaps}

\* sizes the window system reports (glfw::framebuffer_size) or a caller passes
Sizes == { ivec2(0, 600), ivec2(800, 0), ivec2(-1, -1),
           ivec2(800, 600), ivec2(300, 300), ivec2(1920, 1080) }

-----------------------------------------------------------------------------
(* swapchain.cpp, the free functions. *)

get_image_extent_or(capabilities, size) ==
    IF ULess(capabilities.currentExtent.width, limitless_v)
       \/ ULess(capabilities.currentExtent.height, limitless_v)
    THEN capabilities.currentExtent
    ELSE Extent2D(clamp(size.x, capabilities.minImageExtent.width,
                        capabilities.maxImageExtent.width),
                  clamp(size.y, capabilities.minImageExtent.height,
                        capabilities.maxImageExtent.height))

get_image_extent(capabilities, size) ==
    IF ULess(capabilities.currentExtent.width, limitless_v)
       /\ ULess(capabilities.currentExtent.height, limitless_v)
    THEN capabilities.currentExtent
    ELSE Extent2D(clamp(size.x, capabilities.minImageExtent.width,
                        capabilities.maxImageExtent.width),
                  clamp(size.y, capabilities.minImageExtent.height,
                        capabilities.maxImageExtent.height))

get_image_count(capabilities) ==
    IF ULess(capabilities.maxImageCount, capabilities.minImageCount)
    THEN max(min_images_v, capabilities.minImageCount)
    ELSE clamp(min_images_v, capabilities.minImageCount, capabilities.maxImageCount)

\* "false", "true", or "throw" for std::runtime_error{"Swapchain Error"}
needs_recreation_stale_ok(result) ==
    IF result \in {"eSuccess", "eSuboptimalKHR", "eErrorOutOfDateKHR"} THEN "false"
    ELSE "throw"

needs_recreation(result) ==
    CASE result \in {"eSuccess", "eSuboptimalKHR"} -> "false"
      [] result = "eErrorOutOfDateKHR" -> "true"
      [] OTHER -> "throw"

-----------------------------------------------------------------------------
(* class Swapchain. *)

get_size == ivec2(m_ci.imageExtent.width, m_ci.imageExtent.height)

\* a handle the device has not handed out for the live swapchain
NewHandle == IF m_swapchain = 1 THEN 2 ELSE 1

\* populate_images: the images of swapchain h, n of them
populate_images(h, n) == [i \in 1..n |-> <<h, i>>]

\* create_image_views: one view per image, in order
create_image_views(images) == [i \in 1..Len(images) |-> [image |-> images[i]]]

\* the CreateInfo recreate fills in before its assert
RecreateInfo(size) ==
    [imageExtent |-> get_image_extent(surface_caps, size),
     minImageCount |-> get_image_count(surface_caps),
     oldSwapchain |-> m_swapchain]

\* the condition of recreate's assert
RecreateAssert(ci) ==
    /\ ULess(0, ci.imageExtent.width)
    /\ ULess(0, ci.imageExtent.height)
    /\ ~ULess(ci.minImageCount, min_images_v)

Call(op, ret) == [op |-> op, ret |-> ret, size |-> ivec2(0, 0), result |-> "",
                  wait_idle |-> FALSE, repeat |-> FALSE, caps |-> <<>>]

\* recreate's early return, line 99
recreate_refused(size) ==
    /\ call' = [Call("recreate", "false") EXCEPT !.size = size]
    /\ UNCHANGED <<swapVars, built>>

\* recreate from line 101 on; the device creates n images and answers the two
\* getSwapchainImagesKHR calls with r1 and r2; reset_index is line 112,
\* m_image_index.reset(), which recreate always executes
recreate_rebuild(size, n, r1, r2, reset_index) ==
    LET ci == RecreateInfo(size)
        c == [Call("recreate", "") EXCEPT !.size = size, !.caps = surface_caps,
                  !.repeat = (built.size = size /\ built.caps = surface_caps)]
    IN  IF ~ndebug /\ ~RecreateAssert(ci)
        THEN /\ call' = [c EXCEPT !.ret = "abort"]
             /\ m_ci' = ci
             /\ UNCHANGED <<m_swapchain, m_images, m_image_views, m_image_index, built>>
        ELSE /\ m_ci' = ci
             /\ m_swapchain' = NewHandle
             /\ m_image_index' = IF reset_index THEN None ELSE m_image_index
             /\ IF r1 # "eSuccess"
                THEN /\ call' = [c EXCEPT !.ret = "throw", !.wait_idle = TRUE]
                     /\ UNCHANGED <<m_images, m_image_views, built>>
                ELSE IF r2 # "eSuccess"
                THEN /\ call' = [c EXCEPT !.ret = "throw", !.wait_idle = TRUE]
                     /\ m_images' = populate_images(NewHandle, n)
                     /\ UNCHANGED <<m_image_views, built>>
                ELSE /\ call' = [c EXCEPT !.ret = "true", !.wait_idle = TRUE]
                     /\ m_images' = populate_images(NewHandle, n)
                     /\ m_image_views' = create_image_views(populate_images(NewHandle, n))
                     /\ built' = [size |-> size, caps |-> surface_caps]

recreate_and(size, n, r1, r2) ==
    IF size.x <= 0 /\ size.y <= 0
    THEN recreate_refused(size)
    ELSE recreate_rebuild(size, n, r1, r2, TRUE)

recreate_keeps_index(size, n, r1, r2) ==
    IF size.x <= 0 \/ size.y <= 0
    THEN recreate_refused(size)
    ELSE recreate_rebuild(size, n, r1, r2, FALSE)

\* Swapchain::recreate(size)
recreate(size, n, r1, r2) ==
    IF size.x <= 0 \/ size.y <= 0
    THEN recreate_refused(size)
    ELSE recreate_rebuild(size, n, r1, r2, TRUE)

\* the image counts the device may answer a swapchain creation with
ImageCounts(size) ==
    LET c == RecreateInfo(size).minImageCount IN c .. c + MaxExtraImages

\* Swapchain::acquire_next_image; acquireNextImageKHR answers result and, when
\* it hands out an image, image_index
acquire_next_image(result, image_index) ==
    /\ UNCHANGED <<m_ci, m_swapchain, m_images, m_image_views, built>>
    /\ IF ~ndebug /\ has_value(m_image_index)
       THEN /\ call' = [Call("acquire_next_image", "abort") EXCEPT !.result = result]
            /\ UNCHANGED m_image_index
       ELSE CASE needs_recreation(result) = "throw" ->
                   /\ call' = [Call("acquire_next_image", "throw") EXCEPT !.result = result]
                   /\ UNCHANGED m_image_index
              [] needs_recreation(result) = "true" ->
                   /\ call' = [Call("acquire_next_image", "none") EXCEPT !.result = result]
                   /\ UNCHANGED m_image_index
              [] OTHER ->
                   /\ m_image_index' = Some(image_index)
                   /\ call' = [Call("acquire_next_image",
                                    IF image_index < Len(m_images) THEN "some" ELSE "throw")
                               EXCEPT !.result = result]

present_keeps_index_on_throw(result) ==
    /\ UNCHANGED <<m_ci, m_swapchain, m_images, m_image_views, built>>
    /\ IF ~has_value(m_image_index) \/ needs_recreation(result) = "throw"
       THEN /\ call' = [Call("present", "throw") EXCEPT !.result = result]
            /\ UNCHANGED m_image_index
       ELSE /\ m_image_index' = None
            /\ call' = [Call("present",
                             IF needs_recreation(result) = "true" THEN "false" ELSE "true")
                        EXCEPT !.result = result]

\* Swapchain::present; presentKHR answers result
present(result) ==
    /\ UNCHANGED <<m_ci, m_swapchain, m_images, m_image_views, built>>
    /\ IF ~has_value(m_image_index)
       THEN /\ call' = [Call("present", "throw") EXCEPT !.result = result]
            /\ UNCHANGED m_image_index
       ELSE /\ m_image_index' = None
            /\ call' = [Call("present",
                             CASE needs_recreation(result) = "throw" -> "throw"
                               [] needs_recreation(result) = "true" -> "false"
                               [] OTHER -> "true")
                        EXCEPT !.result = result]

-----------------------------------------------------------------------------
(* The environment. *)

\* what a pass of the loop has done: the slot it started with, what
\* waitForFences returned and the state it found the fence in, how
\* acquire_next_image ended, whether acquire_render_target let it proceed, and
\* how often it reset the fence, began recording, submitted, presented and
\* called recreate
NoCycle == [slot |-> 0, wait |-> "", fence |-> "", acquire |-> "", proceed |-> "",
            resets |-> 0, begins |-> 0, submits |-> 0, presents |-> 0, recreates |-> 0,
            wrote |-> <<>>]

\* no CommandBlock has been constructed
NoBlock == [pc |-> "", m_command_buffer |-> "null", fence |-> "", result |-> "",
            work |-> 0, waited |-> 0, done |-> FALSE, submits |-> 0, calls |-> 0]

\* the window system or the driver changes what the surface reports
surface_changed ==
    /\ pc \notin {"fatal", "aborted"}
    /\ \E c \in CapsSet : c # surface_caps /\ surface_caps' = c
    /\ UNCHANGED <<ndebug, destroyed, block, swapVars, call, built, pc, appVars>>

\* create_render_sync: the semaphores are created unsignaled, the command
\* buffers are allocated, and there is no swapchain image yet
SyncObjectsCreated ==
    /\ draw = [s \in 0 .. resource_buffering_v - 1 |-> "unsignaled"]
    /\ present_sem = [s \in 0 .. resource_buffering_v - 1 |-> "unsignaled"]
    /\ command_buffer = [s \in 0 .. resource_buffering_v - 1 |->
                            [state |-> "initial", image |-> 0, reads |-> <<>>]]
    /\ image_state = <<>>
    /\ present_queue = <<>>

-----------------------------------------------------------------------------
(* A caller of class Swapchain that keeps to its preconditions. *)

AfterCall == CASE call'.ret = "throw" -> "fatal"
               [] call'.ret = "abort" -> "aborted"
               [] OTHER -> "constructed"

\* Swapchain::Swapchain
Construct ==
    /\ pc = "start"
    /\ \E size \in Sizes : \E n \in ImageCounts(size) : \E r1, r2 \in ImagesResults :
          recreate(size, n, r1, r2)
    /\ pc' = IF call'.ret = "false" THEN "fatal" ELSE AfterCall
    /\ UNCHANGED <<ndebug, destroyed, block, surface_caps, appVars>>

CallRecreate ==
    /\ pc = "constructed"
    /\ \E size \in Sizes : \E n \in ImageCounts(size) : \E r1, r2 \in ImagesResults :
          recreate(size, n, r1, r2)
    /\ pc' = AfterCall
    /\ UNCHANGED <<ndebug, destroyed, block, surface_caps, appVars>>

CallAcquire ==
    /\ pc = "constructed"
    /\ ~has_value(m_image_index)
    /\ \E result \in Results : \E i \in 0 .. Len(m_images) - 1 :
          acquire_next_image(result, i)
    /\ pc' = AfterCall
    /\ UNCHANGED <<ndebug, destroyed, block, surface_caps, appVars>>

CallPresent ==
    /\ pc = "constructed"
    /\ has_value(m_image_index)
    /\ \E result \in Results : present(result)
    /\ pc' = AfterCall
    /\ UNCHANGED <<ndebug, destroyed, block, surface_caps, appVars>>

SwapInit ==
    /\ ndebug \in BOOLEAN
    /\ surface_caps \in CapsSet
    /\ m_ci = [imageExtent |-> Extent2D(0, 0), minImageCount |-> 0, oldSwapchain |-> 0]
    /\ m_swapchain = 0
    /\ m_images = <<>>
    /\ m_image_views = <<>>
    /\ m_image_index = None
    /\ call = Call("", "")
    /\ built = [size |-> ivec2(0, 0), caps |-> surface_caps]
    /\ pc = "start"
    /\ version = "final"
    /\ window_size = ivec2(800, 600)
    /\ m_framebuffer_size = ivec2(0, 0)
    /\ m_frame_index = 0
    /\ drawn = [s \in 0 .. resource_buffering_v - 1 |-> fence_create_info_v]
    /\ cycle = NoCycle
    /\ slots = [first |-> None, prev |-> None, last |-> None]
    /\ SyncObjectsCreated
    /\ destroyed = <<>>
    /\ block = NoBlock

SwapNext ==
    \/ Construct /\ UNCHANGED syncVars
    \/ CallRecreate /\ UNCHANGED syncVars
    \/ CallAcquire /\ UNCHANGED syncVars
    \/ CallPresent /\ UNCHANGED syncVars
    \/ surface_changed /\ UNCHANGED syncVars

SwapSpec == SwapInit /\ [][SwapNext]_vars

-----------------------------------------------------------------------------
(* class App: the frame loop and the device it runs against. *)

\* capability reports and window sizes the frame loop is run against
AppCapsSet == {FreeCaps, FixedCaps, TwoImageCaps}
WindowSizes == {ivec2(0, 600), ivec2(800, 600), ivec2(1920, 1080)}

Terminated == pc \in {"fatal", "aborted", "exit"}

\* the user resizes or minimises the window
resize ==
    /\ ~Terminated
    /\ \E sz \in WindowSizes : sz # window_size /\ window_size' = sz
    /\ UNCHANGED <<ndebug, destroyed, block, surface_caps, swapVars, call, built, pc, version,
                   m_framebuffer_size, m_frame_index, drawn, cycle, slots>>

\* the surface reports other capabilities
app_surface_changed ==
    /\ ~Terminated
    /\ \E c \in AppCapsSet : c # surface_caps /\ surface_caps' = c
    /\ UNCHANGED <<ndebug, destroyed, block, swapVars, call, built, pc, appVars>>

\* the queue finishes the work submitted with the fence of slot s and signals it
fence_signal(s) ==
    /\ drawn[s] = "pending"
    /\ drawn' = [drawn EXCEPT ![s] = "signaled"]
    /\ UNCHANGED <<ndebug, destroyed, block, surface_caps, swapVars, call, built, pc, version, window_size,
                   m_framebuffer_size, m_frame_index, cycle, slots>>

\* the queue finishes the work submitted for some slot
gpu_complete == \E s \in DOMAIN drawn : fence_signal(s)

\* vk::Device::waitIdle returns only then
GpuIdle == \A s \in DOMAIN drawn : drawn[s] # "pending"

\* where an exception or a failed assert in a Swapchain call takes the loop
Unwind(ret, next) == CASE ret = "throw" -> "fatal"
                       [] ret = "abort" -> "aborted"
                       [] OTHER -> next

\* App::create_swapchain: Swapchain's constructor
create_swapchain ==
    /\ pc = "create_swapchain"
    /\ \E n \in ImageCounts(window_size) : \E r1, r2 \in ImagesResults :
          recreate(window_size, n, r1, r2)
    /\ pc' = IF call'.ret = "false" THEN "fatal" ELSE Unwind(call'.ret, "main_loop")
    /\ UNCHANGED <<ndebug, destroyed, block, surface_caps, appVars>>

main_loop_no_size_check ==
    /\ pc = "main_loop"
    /\ \/ /\ pc' = "exit"
          /\ UNCHANGED <<m_framebuffer_size, cycle>>
       \/ /\ m_framebuffer_size' = window_size
          /\ cycle' = [NoCycle EXCEPT !.slot = m_frame_index]
          /\ pc' = IF version = "final" THEN "wait_fence" ELSE "acquire"
    /\ UNCHANGED <<ndebug, destroyed, block, surface_caps, swapVars, call, built, version, window_size,
                   m_frame_index, drawn, slots>>

\* App::main_loop, the loop test, and acquire_render_target up to its size check
main_loop ==
    /\ pc = "main_loop"
    /\ \/ /\ pc' = "exit"
          /\ UNCHANGED <<m_framebuffer_size, cycle>>
       \/ /\ m_framebuffer_size' = window_size
          /\ IF window_size.x <= 0 \/ window_size.y <= 0
             THEN /\ cycle' = [NoCycle EXCEPT !.slot = m_frame_index, !.proceed = "false"]
                  /\ pc' = "main_loop"
             ELSE /\ cycle' = [NoCycle EXCEPT !.slot = m_frame_index]
                  /\ pc' = IF version = "final" THEN "wait_fence" ELSE "acquire"
    /\ UNCHANGED <<ndebug, destroyed, block, surface_caps, swapVars, call, built, version, window_size,
                   m_frame_index, drawn, slots>>

\* vk::Device::waitForFences on the fence of slot s with fence_timeout_v (3 s):
\* eSuccess once the fence is signaled, eTimeout when the 3 s pass first
waitForFences(s) == IF drawn[s] = "signaled" THEN "eSuccess" ELSE "eTimeout"

wait_fence_unchecked ==
    /\ pc = "wait_fence"
    /\ cycle' = [cycle EXCEPT !.wait = waitForFences(m_frame_index),
                              !.fence = drawn[m_frame_index]]
    /\ pc' = "acquire"
    /\ UNCHANGED <<ndebug, destroyed, block, surface_caps, swapVars, call, built, version, window_size,
                   m_framebuffer_size, m_frame_index, drawn, slots>>

\* acquire_render_target, final: waitForFences on the slot's fence, and the
\* exception "Failed to wait for Render Fence"
wait_fence ==
    /\ pc = "wait_fence"
    /\ cycle' = [cycle EXCEPT !.wait = waitForFences(m_frame_index),
                              !.fence = drawn[m_frame_index]]
    /\ pc' = IF waitForFences(m_frame_index) = "eSuccess" THEN "acquire" ELSE "fatal"
    /\ UNCHANGED <<ndebug, destroyed, block, surface_caps, swapVars, call, built, version, window_size,
                   m_framebuffer_size, m_frame_index, drawn, slots>>

\* vk::Device::resetFences on slot s
reset_fence(s) == [drawn EXCEPT ![s] = "unsignaled"]

after_acquire_final_reset_first(ret) ==
    /\ drawn' = reset_fence(m_frame_index)
    /\ cycle' = [cycle EXCEPT !.acquire = ret, !.resets = @ + 1,
                              !.proceed = IF ret = "some" THEN "true" ELSE "false"]
    /\ pc' = Unwind(ret, IF ret = "some" THEN "begin_frame" ELSE "recreate_acquire")

after_acquire_final_no_recreate(ret) ==
    IF ret = "some"
    THEN /\ drawn' = reset_fence(m_frame_index)
         /\ cycle' = [cycle EXCEPT !.acquire = ret, !.proceed = "true", !.resets = @ + 1]
         /\ pc' = "begin_frame"
    ELSE /\ cycle' = [cycle EXCEPT !.acquire = ret, !.proceed = "false"]
         /\ pc' = Unwind(ret, "main_loop")
         /\ UNCHANGED drawn

\* acquire_render_target (app.cpp, final) after acquire_next_image answered ret:
\* none is followed by recreate and return false, an image by resetFences
after_acquire_final(ret) ==
    IF ret = "some"
    THEN /\ drawn' = reset_fence(m_frame_index)
         /\ cycle' = [cycle EXCEPT !.acquire = ret, !.proceed = "true", !.resets = @ + 1]
         /\ pc' = "begin_frame"
    ELSE /\ cycle' = [cycle EXCEPT !.acquire = ret, !.proceed = "false"]
         /\ pc' = Unwind(ret, "recreate_acquire")
         /\ UNCHANGED drawn

\* acquire_render_target (early) after acquire_next_image answered ret:
\* fb_size_changed or none is followed by recreate and return false
after_acquire_early(ret) ==
    /\ IF ret = "some" /\ m_framebuffer_size = get_size
       THEN /\ cycle' = [cycle EXCEPT !.acquire = ret, !.proceed = "true"]
            /\ pc' = "wait_for_frame"
       ELSE /\ cycle' = [cycle EXCEPT !.acquire = ret, !.proceed = "false"]
            /\ pc' = Unwind(ret, "recreate_acquire")
    /\ UNCHANGED drawn

\* acquire_render_target from its call of acquire_next_image on
acquire ==
    /\ pc = "acquire"
    /\ \E result \in Results : \E i \in 0 .. Len(m_images) - 1 :
          acquire_next_image(result, i)
    /\ IF version = "final" THEN after_acquire_final(call'.ret)
                           ELSE after_acquire_early(call'.ret)
    /\ UNCHANGED <<ndebug, destroyed, block, surface_caps, version, window_size, m_framebuffer_size,
                   m_frame_index, slots>>

call_recreate_no_wait ==
    /\ \E n \in ImageCounts(m_framebuffer_size) : \E r1, r2 \in ImagesResults :
          recreate(m_framebuffer_size, n, r1, r2)
    /\ cycle' = [cycle EXCEPT !.recreates = @ + 1]
    /\ pc' = Unwind(call'.ret, "main_loop")
    /\ UNCHANGED <<ndebug, destroyed, block, surface_caps, version, window_size, m_framebuffer_size,
                   m_frame_index, drawn, slots>>

\* m_swapchain->recreate(m_framebuffer_size), which waits for the device to be
\* idle once it is past its size check and its assert
call_recreate ==
    /\ \E n \in ImageCounts(m_framebuffer_size) : \E r1, r2 \in ImagesResults :
          recreate(m_framebuffer_size, n, r1, r2)
    /\ call'.wait_idle => GpuIdle
    /\ cycle' = [cycle EXCEPT !.recreates = @ + 1]
    /\ pc' = Unwind(call'.ret, "main_loop")
    /\ UNCHANGED <<ndebug, destroyed, block, surface_caps, version, window_size, m_framebuffer_size,
                   m_frame_index, drawn, slots>>

\* the recreate of acquire_render_target
recreate_acquire ==
    /\ pc = "recreate_acquire"
    /\ call_recreate

\* wait_for_frame, early: waitForFences, resetFences, begin recording
wait_for_frame ==
    /\ pc = "wait_for_frame"
    /\ IF waitForFences(m_frame_index) = "eSuccess"
       THEN /\ drawn' = reset_fence(m_frame_index)
            /\ cycle' = [cycle EXCEPT !.wait = "eSuccess", !.fence = drawn[m_frame_index],
                                      !.resets = @ + 1, !.begins = @ + 1]
            /\ pc' = "render"
       ELSE /\ cycle' = [cycle EXCEPT !.wait = "eTimeout", !.fence = drawn[m_frame_index]]
            /\ pc' = "fatal"
            /\ UNCHANGED drawn
    /\ UNCHANGED <<ndebug, destroyed, block, surface_caps, swapVars, call, built, version, window_size,
                   m_framebuffer_size, m_frame_index, slots>>

\* begin_frame, final: begin recording
begin_frame ==
    /\ pc = "begin_frame"
    /\ cycle' = [cycle EXCEPT !.begins = @ + 1]
    /\ pc' = "render"
    /\ UNCHANGED <<ndebug, destroyed, block, surface_caps, swapVars, call, built, version, window_size,
                   m_framebuffer_size, m_frame_index, drawn, slots>>

write_at_other_slot(frame_index) == <<(frame_index + 1) % resource_buffering_v>>

\* ShaderBuffer::write_at: write_to(m_buffers.at(frame_index), bytes) fills,
\* and re-creates when it is too small, the buffer of that index
write_at(frame_index) == <<frame_index>>

\* ShaderBuffer::descriptor_info_at: the buffer of that index
descriptor_info_at(frame_index) == <<frame_index>>

\* transition_for_render, render, transition_for_present: recording, and in
\* the final render update_view and update_instances write the view and
\* instance buffers on the way
render ==
    /\ pc = "render"
    /\ pc' = "submit"
    /\ cycle' = [cycle EXCEPT !.wrote = IF version = "final" THEN write_at(m_frame_index)
                                                             ELSE <<>>]
    /\ UNCHANGED <<ndebug, destroyed, block, surface_caps, swapVars, call, built, version, window_size,
                   m_framebuffer_size, m_frame_index, drawn, slots>>

next_frame_index_off_by_one(i) == (i + 1) % (resource_buffering_v + 1)

\* (m_frame_index + 1) % m_render_sync.size()
next_frame_index(i) == (i + 1) % resource_buffering_v

\* submit_and_present up to the advance of m_frame_index: end recording,
\* submit2 with the slot's fence, advance
submit ==
    /\ pc = "submit"
    /\ drawn' = [drawn EXCEPT ![m_frame_index] = "pending"]
    /\ m_frame_index' = next_frame_index(m_frame_index)
    /\ cycle' = [cycle EXCEPT !.submits = @ + 1]
    /\ slots' = [first |-> IF has_value(slots.first) THEN slots.first ELSE Some(m_frame_index),
                 prev |-> slots.last, last |-> Some(m_frame_index)]
    /\ pc' = "present"
    /\ UNCHANGED <<ndebug, destroyed, block, surface_caps, swapVars, call, built, version, window_size,
                   m_framebuffer_size>>

present_frame_no_size_check ==
    /\ pc = "present"
    /\ \E result \in Results : present(result)
    /\ cycle' = [cycle EXCEPT !.presents = @ + 1]
    /\ pc' = Unwind(call'.ret, IF call'.ret = "false"
                                THEN "recreate_present" ELSE "main_loop")
    /\ UNCHANGED <<ndebug, destroyed, block, surface_caps, version, window_size, m_framebuffer_size,
                   m_frame_index, drawn, slots>>

\* the rest of submit_and_present: present, and the decision to recreate
present_frame ==
    /\ pc = "present"
    /\ \E result \in Results : present(result)
    /\ cycle' = [cycle EXCEPT !.presents = @ + 1]
    /\ LET fb_size_changed == version = "final" /\ m_framebuffer_size # get_size
           out_of_date == call'.ret = "false"
       IN  pc' = Unwind(call'.ret, IF fb_size_changed \/ out_of_date
                                   THEN "recreate_present" ELSE "main_loop")
    /\ UNCHANGED <<ndebug, destroyed, block, surface_caps, version, window_size, m_framebuffer_size,
                   m_frame_index, drawn, slots>>

\* the recreate of submit_and_present
recreate_present ==
    /\ pc = "recreate_present"
    /\ call_recreate

Init ==
    /\ ndebug \in BOOLEAN
    /\ surface_caps \in AppCapsSet
    /\ m_ci = [imageExtent |-> Extent2D(0, 0), minImageCount |-> 0, oldSwapchain |-> 0]
    /\ m_swapchain = 0
    /\ m_images = <<>>
    /\ m_image_views = <<>>
    /\ m_image_index = None
    /\ call = Call("", "")
    /\ built = [size |-> ivec2(0, 0), caps |-> surface_caps]
    /\ pc = "create_swapchain"
    /\ version \in {"early", "final"}
    /\ window_size \in WindowSizes
    /\ m_framebuffer_size = ivec2(0, 0)
    /\ m_frame_index = 0
    /\ drawn = [s \in 0 .. resource_buffering_v - 1 |-> fence_create_info_v]
    /\ cycle = NoCycle
    /\ slots = [first |-> None, prev |-> None, last |-> None]
    /\ SyncObjectsCreated
    /\ destroyed = <<>>
    /\ block = NoBlock

\* the loop against a device seen through its fences only: the semaphores, the
\* command buffers and the images behind them are left out
Next ==
    \/ create_swapchain /\ UNCHANGED syncVars
    \/ main_loop /\ UNCHANGED syncVars
    \/ wait_fence /\ UNCHANGED syncVars
    \/ acquire /\ UNCHANGED syncVars
    \/ recreate_acquire /\ UNCHANGED syncVars
    \/ wait_for_frame /\ UNCHANGED syncVars
    \/ begin_frame /\ UNCHANGED syncVars
    \/ render /\ UNCHANGED syncVars
    \/ submit /\ UNCHANGED syncVars
    \/ present_frame /\ UNCHANGED syncVars
    \/ recreate_present /\ UNCHANGED syncVars
    \/ resize /\ UNCHANGED syncVars
    \/ app_surface_changed /\ UNCHANGED syncVars
    \/ gpu_complete /\ UNCHANGED syncVars

Spec == Init /\ [][Next]_vars

\* the steps of the thread that runs App::run
LoopStep ==
    /\ \/ create_swapchain \/ main_loop \/ wait_fence \/ acquire \/ recreate_acquire
       \/ wait_for_frame \/ begin_frame \/ render \/ submit \/ present_frame
       \/ recreate_present
    /\ UNCHANGED syncVars

\* the thread keeps running and the queue keeps executing what it was given; a
\* wait on a fence that is not signaled may end either way
FairSpec ==
    Spec /\ WF_vars(LoopStep) /\ WF_vars(gpu_complete /\ UNCHANGED syncVars)

-----------------------------------------------------------------------------
(* The device behind the loop: semaphores, command buffers, the images of the *)
(* swapchain and the presentation engine.                                      *)

\* the stage mask of the submission's wait on the draw semaphore
wait_stage == IF version = "early" THEN "eTopOfPipe" ELSE "eColorAttachmentOutput"

\* srcStageMask of the barrier of transition_for_render
barrier_src_stage == IF version = "early" THEN "eTopOfPipe" ELSE "eColorAttachmentOutput"

\* whether a semaphore wait at stage w holds back the layout transition of a
\* barrier whose source stage is src: a wait at the top of the pipe holds back
\* every command of the batch, a wait at a later stage only what the barrier
\* chains to it through that stage
HeldBySemaphore(w, src) == w = "eTopOfPipe" \/ src = w

FreeImage == [state |-> "free", sem |-> 0]

InFlight == {"pending", "executing"}

\* the device side of Swapchain::recreate: waitIdle also ends the queue
\* operations of earlier presentation requests, and the images of a new
\* swapchain all belong to the presentation engine
device_recreate ==
    /\ call'.wait_idle => present_queue = <<>>
    /\ image_state' = IF call'.ret = "true"
                      THEN [i \in 0 .. Len(m_images') - 1 |-> FreeImage]
                      ELSE image_state
    /\ UNCHANGED <<draw, present_sem, command_buffer, present_queue>>

\* the device side of acquireNextImageKHR with the draw semaphore of the current
\* slot: the engine hands out an image it owns and will signal the semaphore
\* when it has released it; the images it owns are alike, so it is taken to
\* hand out the one with the lowest index
device_acquire ==
    IF call'.ret = "some"
    THEN /\ image_state[m_image_index'[1]].state = "free"
         /\ \A j \in 0 .. m_image_index'[1] - 1 : image_state[j].state # "free"
         /\ image_state' = [image_state EXCEPT ![m_image_index'[1]] =
                                [state |-> "acquiring", sem |-> m_frame_index]]
         /\ draw' = [draw EXCEPT ![m_frame_index] =
                         IF @ = "unsignaled" THEN "pending" ELSE @]
         /\ UNCHANGED <<present_sem, command_buffer, present_queue>>
    ELSE UNCHANGED syncVars

\* the presentation engine releases an acquired image and signals the semaphore
\* that was given to the acquire
image_available ==
    /\ \E i \in DOMAIN image_state :
          /\ image_state[i].state = "acquiring"
          /\ image_state' = [image_state EXCEPT ![i] = [state |-> "acquired", sem |-> 0]]
          /\ draw' = [draw EXCEPT ![image_state[i].sem] = "signaled"]
    /\ UNCHANGED <<ndebug, destroyed, block, surface_caps, swapVars, call, built, pc, appVars,
                   present_sem, command_buffer, present_queue>>

\* command_buffer.begin of the current slot, recording for the acquired image
device_begin ==
    IF cycle'.begins # cycle.begins
    THEN /\ command_buffer' = [command_buffer EXCEPT ![m_frame_index] =
                                  [state |-> "recording", image |-> m_image_index[1], reads |-> <<>>]]
         /\ UNCHANGED <<draw, present_sem, image_state, present_queue>>
    ELSE UNCHANGED syncVars

\* bind_descriptor_sets: the recorded draw reads the view and instance buffers
\* that descriptor_info_at(m_frame_index) names
device_record ==
    /\ command_buffer' = [command_buffer EXCEPT ![m_frame_index].reads =
                              IF version = "final" THEN descriptor_info_at(m_frame_index)
                                                   ELSE <<>>]
    /\ UNCHANGED <<draw, present_sem, image_state, present_queue>>

\* command_buffer.end and submit2 of the current slot's command buffer
device_submit ==
    /\ command_buffer' = [command_buffer EXCEPT ![m_frame_index].state = "pending"]
    /\ UNCHANGED <<draw, present_sem, image_state, present_queue>>

\* the queue executes the layout transition recorded by transition_for_render
gpu_transition ==
    /\ \E s \in DOMAIN command_buffer :
          /\ command_buffer[s].state = "pending"
          /\ HeldBySemaphore(wait_stage, barrier_src_stage) => draw[s] = "signaled"
          /\ command_buffer' = [command_buffer EXCEPT ![s].state = "executing"]
    /\ UNCHANGED <<ndebug, destroyed, block, surface_caps, swapVars, call, built, pc, appVars,
                   draw, present_sem, image_state, present_queue>>

\* the queue executes the colour-attachment output of the submission of slot s,
\* which waits for the draw semaphore, and then signals the present semaphore
device_finish(s) ==
    /\ command_buffer[s].state = "executing"
    /\ draw[s] = "signaled"
    /\ draw' = [draw EXCEPT ![s] = "unsignaled"]
    /\ present_sem' = [present_sem EXCEPT ![s] = "signaled"]
    /\ command_buffer' = [command_buffer EXCEPT ![s] = [state |-> "invalid", image |-> 0, reads |-> <<>>]]
    /\ image_state' = [image_state EXCEPT ![command_buffer[s].image].state = "rendered"]
    /\ UNCHANGED present_queue

\* the queue finishes the submission of some slot and signals its fence
gpu_finish == \E s \in DOMAIN drawn : fence_signal(s) /\ device_finish(s)

device_present_current_slot ==
    IF call'.ret \in {"true", "false"}
    THEN /\ present_queue' = Append(present_queue,
                                    [slot |-> m_frame_index, image |-> m_image_index[1]])
         /\ UNCHANGED <<draw, present_sem, command_buffer, image_state>>
    ELSE UNCHANGED syncVars

\* the device side of presentKHR with the present semaphore of the slot that was
\* just submitted (render_sync was taken before m_frame_index advanced)
device_present ==
    IF call'.ret \in {"true", "false"}
    THEN /\ present_queue' = Append(present_queue,
                                    [slot |-> cycle.slot, image |-> m_image_index[1]])
         /\ UNCHANGED <<draw, present_sem, command_buffer, image_state>>
    ELSE UNCHANGED syncVars

\* the presentation engine takes the oldest request: its wait on the present
\* semaphore ends, the image is shown and belongs to the engine again
present_execute ==
    /\ present_queue # <<>>
    /\ present_sem[Head(present_queue).slot] = "signaled"
    /\ present_sem' = [present_sem EXCEPT ![Head(present_queue).slot] = "unsignaled"]
    /\ image_state' = [image_state EXCEPT ![Head(present_queue).image] = FreeImage]
    /\ present_queue' = Tail(present_queue)
    /\ UNCHANGED <<ndebug, destroyed, block, surface_caps, swapVars, call, built, pc, appVars,
                   draw, command_buffer>>

\* the loop is run in a window that keeps its size, on a surface that takes
\* its extent from the window or has a fixed one
SyncInit ==
    /\ Init
    /\ surface_caps \in {FreeCaps, FixedCaps}
    /\ window_size = ivec2(800, 600)
    /\ ~ndebug

SyncNext ==
    \/ create_swapchain /\ device_recreate
    \/ main_loop /\ UNCHANGED syncVars
    \/ wait_fence /\ UNCHANGED syncVars
    \/ acquire /\ device_acquire
    \/ recreate_acquire /\ device_recreate
    \/ wait_for_frame /\ device_begin
    \/ begin_frame /\ device_begin
    \/ render /\ device_record
    \/ submit /\ device_submit
    \/ present_frame /\ device_present
    \/ recreate_present /\ device_recreate
    \/ image_available
    \/ gpu_transition
    \/ gpu_finish
    \/ present_execute

SyncSpec == SyncInit /\ [][SyncNext]_vars

-----------------------------------------------------------------------------
(* The end of App: main returns from run, or unwinds from it with an         *)
(* exception, and the temporary App is destroyed.                            *)

Members_waiter_first ==
    <<"m_waiter", "m_device", "m_swapchain", "m_render_cmd_pool", "m_cmd_block_pool",
      "m_render_sync">>

\* the members of App that own device objects, in the order of their
\* declaration
Members ==
    <<"m_device", "m_swapchain", "m_render_cmd_pool", "m_cmd_block_pool",
      "m_render_sync", "m_waiter">>

\* members are destroyed in the reverse order of their declaration
DestructionOrder == [i \in 1 .. Len(Members) |-> Members[Len(Members) + 1 - i]]

\* the destructor of App has come to this member
NextDestroyed == DestructionOrder[Len(destroyed) + 1]

\* ~Scoped of m_waiter: ScopedWaiterDeleter calls device.waitIdle(), which
\* returns once the queue has finished everything it was given
ScopedWaiterDeleter ==
    /\ pc \in {"exit", "fatal"}
    /\ Len(destroyed) < Len(Members)
    /\ NextDestroyed = "m_waiter"
    /\ GpuIdle /\ present_queue = <<>>
    /\ destroyed' = Append(destroyed, "m_waiter")
    /\ UNCHANGED <<ndebug, block, surface_caps, swapVars, call, built, pc, appVars, syncVars>>

\* the destructor of any other member: its Vulkan objects are destroyed
destroy_member ==
    /\ pc \in {"exit", "fatal"}
    /\ Len(destroyed) < Len(Members)
    /\ NextDestroyed # "m_waiter"
    /\ destroyed' = Append(destroyed, NextDestroyed)
    /\ UNCHANGED <<ndebug, block, surface_caps, swapVars, call, built, pc, appVars, syncVars>>

\* the loop against the device, and the destruction of App after it
ExitNext ==
    \/ SyncNext
    \/ ScopedWaiterDeleter
    \/ destroy_member

ExitSpec == SyncInit /\ [][ExitNext]_vars

-----------------------------------------------------------------------------
(* Properties of the frame loop, checked under Spec. *)

Slots == 0 .. resource_buffering_v - 1

\* the loop is about to wait on the fence of the current slot
AtFenceWait == pc \in {"wait_fence", "wait_for_frame"}

\* C1: whenever the loop comes to wait on and reset a slot's fence, a queue
\* submission signalling that fence was made after the previous reset of it (or
\* the fence was never reset): the fence is not in the state a reset leaves it
\* in. This holds through successful, skipped and abandoned passes, and no pass
\* resets a fence more than once or ends with a reset fence nothing will signal.
C1_SlotAlternation ==
    /\ AtFenceWait => drawn[m_frame_index] # "unsignaled"
    /\ pc \in {"main_loop", "acquire", "recreate_acquire", "recreate_present", "present"}
          => \A s \in Slots : drawn[s] # "unsignaled"
    /\ cycle.resets <= 1
    /\ cycle.resets <= cycle.submits + 1

\* slot 0 has been waited on and reset a second time, after the submissions of
\* slot 0 and of slot 1
C1_Witness ==
    /\ cycle.resets = 1 /\ cycle.slot = 0 /\ drawn[0] = "unsignaled"
    /\ slots.prev = Some(0) /\ slots.last = Some(1)

\* C2: acquire_next_image is called only when no acquired index is outstanding,
\* so its assert never fails.
C2_AcquireExclusive ==
    /\ pc = "acquire" => ~has_value(m_image_index)
    /\ ~(call.op = "acquire_next_image" /\ call.ret = "abort")

\* the loop is about to acquire again, the index of the frame before having
\* been cleared by present
C2_Witness ==
    /\ pc = "acquire" /\ call.op = "present" /\ has_value(slots.last)
    /\ ~has_value(m_image_index)

\* C3: a pass that acquired, recorded, submitted and presented has advanced
\* m_frame_index by exactly 1 modulo 2 and left no acquired index, whatever
\* present returned; the first submission uses slot 0, each later one the slot
\* after the previous one, and m_frame_index stays in 0..1.
C3_FullCycle ==
    /\ m_frame_index \in Slots
    /\ cycle.presents = 1 =>
          /\ cycle.submits = 1 /\ cycle.begins = 1 /\ cycle.acquire = "some"
          /\ m_frame_index = (cycle.slot + 1) % resource_buffering_v
          /\ ~has_value(m_image_index)
    /\ has_value(slots.first) => slots.first = Some(0)
    /\ has_value(slots.prev) =>
          slots.last = Some((slots.prev[1] + 1) % resource_buffering_v)

\* a third pass has run to its end on slot 0 with present reporting out-of-date
C3_Witness ==
    /\ cycle.presents = 1 /\ call.op = "present" /\ call.ret = "false"
    /\ slots.prev = Some(1) /\ slots.last = Some(0) /\ m_frame_index = 1

\* C5: in a pass where acquire_next_image reported out-of-date,
\* acquire_render_target returns false, recreate is called exactly once, and
\* nothing is recorded, submitted or presented.
C5_StaleAcquire ==
    cycle.acquire = "none" =>
        /\ cycle.proceed = "false"
        /\ cycle.begins = 0 /\ cycle.submits = 0 /\ cycle.presents = 0 /\ cycle.resets = 0
        /\ cycle.recreates = IF pc = "recreate_acquire" THEN 0 ELSE 1
        /\ pc \in {"recreate_acquire", "main_loop", "exit", "fatal", "aborted"}

\* the pass is over: acquire reported out-of-date and recreate has returned true
C5_Witness ==
    /\ cycle.acquire = "none" /\ pc = "main_loop"
    /\ call.op = "recreate" /\ call.ret = "true" /\ cycle.recreates = 1

\* C12: when the wait on the current slot's fence ends in eTimeout, the loop
\* is left with an exception: the pass has not reset the fence (it is as the
\* wait found it, or signaled since), has recorded and submitted nothing, and
\* the loop never runs again, so the wait is not retried.
C12_FenceTimeout ==
    /\ [](cycle.wait = "eTimeout" =>
            /\ pc = "fatal"
            /\ cycle.resets = 0 /\ cycle.begins = 0 /\ cycle.submits = 0
            /\ drawn[cycle.slot] \in {cycle.fence, "signaled"}
            /\ cycle.fence # "signaled" /\ m_frame_index = cycle.slot)
    /\ [][pc = "fatal" => (pc' = "fatal" /\ cycle' = cycle)]_vars

\* the wait on slot 0 has timed out in the final loop while the second
\* submission of that slot was still pending
C12_Witness ==
    /\ cycle.wait = "eTimeout" /\ cycle.fence = "pending" /\ pc = "fatal"
    /\ version = "final" /\ cycle.slot = 0 /\ slots.prev = Some(0) /\ slots.last = Some(1)

\* a pass of the loop has begun (the swapchain has been constructed)
InLoop == cycle.wait # "" \/ cycle.acquire # "" \/ cycle.proceed # ""

\* C13: the frame loop is left with an error only by a fence wait that timed
\* out or by a call that threw on a fatal Vulkan result; out-of-date results at
\* acquire or present, non-positive framebuffer sizes and size mismatches, in
\* any order, never end it.
C13_RecoverableNotFatal ==
    (InLoop /\ pc \in {"fatal", "aborted"}) =>
        (cycle.wait = "eTimeout" \/ call.ret = "throw")

\* C21: whenever recreate replaces the swapchain or its image views, the device
\* has been waited on and no queue submission is unfinished: the fence of every
\* slot that was ever submitted has been signaled by the queue. This holds for
\* the recreate after a failed acquire and for the one after present.
C21_RecreateWhenIdle ==
    [][(m_swapchain' # m_swapchain \/ m_image_views' # m_image_views) =>
          /\ call'.op = "recreate" /\ call'.wait_idle
          /\ \A s \in Slots : drawn[s] # "pending"]_vars

\* the recreate after present has replaced the swapchain in a pass that
\* submitted on slot 1, one pass after a submission on slot 0
C21_Witness ==
    /\ call.op = "recreate" /\ call.ret = "true" /\ call.wait_idle
    /\ cycle.submits = 1 /\ cycle.recreates = 1 /\ cycle.slot = 1
    /\ slots.prev = Some(0) /\ slots.last = Some(1) /\ m_ci.oldSwapchain # 0

\* a pass of the loop starts in this step while the framebuffer has a
\* non-positive width or height
StartsMinimised ==
    /\ pc = "main_loop" /\ (window_size.x <= 0 \/ window_size.y <= 0)
    /\ <<cycle, m_framebuffer_size>>' # <<cycle, m_framebuffer_size>>

\* C22: a pass that starts with a non-positive framebuffer width or height is
\* over at once: it has waited on no fence and reset none, called neither
\* acquire_next_image nor recreate nor present, recorded and submitted nothing,
\* and m_frame_index, the fences, the acquired index and the swapchain are as
\* they were.
C22_MinimisedSkipped ==
    [][StartsMinimised =>
          /\ pc' = "main_loop"
          /\ cycle' = [NoCycle EXCEPT !.slot = m_frame_index, !.proceed = "false"]
          /\ UNCHANGED <<m_frame_index, drawn, swapVars, call, built, slots>>]_vars

\* a pass has been skipped while the submission of slot 1 was unfinished and
\* the swapchain still had the size the window had before
C22_Witness ==
    /\ pc = "main_loop" /\ cycle.proceed = "false" /\ cycle.acquire = ""
    /\ m_framebuffer_size = ivec2(0, 600) /\ window_size = ivec2(0, 600)
    /\ slots.last = Some(1) /\ drawn[1] = "pending" /\ get_size = ivec2(800, 600)

\* acquire_next_image has handed out an image in this pass while the
\* framebuffer size read at its start differs from the swapchain's extent, and
\* the pass has not called recreate yet
MismatchAfterAcquire ==
    /\ cycle.acquire = "some" /\ cycle.recreates = 0
    /\ m_framebuffer_size # get_size
    /\ pc \notin {"fatal", "aborted"}

\* what is left of a pass that was abandoned after a successful acquire: no
\* fence reset, nothing recorded, submitted or presented, m_frame_index as at
\* its start, recreate called once with the size read at its start, and no
\* acquired index when the next pass starts
AbandonedAfterAcquire ==
    (cycle.acquire = "some" /\ cycle.proceed = "false") =>
        /\ cycle.resets = 0 /\ cycle.begins = 0 /\ cycle.submits = 0
        /\ cycle.presents = 0 /\ m_frame_index = cycle.slot
        /\ pc \in {"recreate_acquire", "main_loop", "exit", "fatal", "aborted"}
        /\ cycle.recreates = IF pc = "recreate_acquire" THEN 0 ELSE 1
        /\ pc # "recreate_acquire" =>
              (call.op = "recreate" /\ call.size = m_framebuffer_size)
        /\ pc \in {"main_loop", "exit"} => ~has_value(m_image_index)

AbandonedPass == cycle.acquire # "" /\ cycle.proceed = "false"

\* C24: a fence is reset only in a pass whose acquire_next_image has handed out
\* an image and which goes on, and it is the fence of the current slot; an
\* abandoned pass resets no fence, never finds or leaves the slot's fence
\* reset, leaves it signaled where the loop had waited on it, and leaves it
\* signaled when the next pass starts; and a pass that has reset the fence and
\* not yet submitted is on its way to the submission, which it cannot leave.
C24_ResetAfterAcquire ==
    /\ [][\A s \in Slots :
            (drawn'[s] = "unsignaled" /\ drawn[s] # "unsignaled") =>
                /\ s = m_frame_index
                /\ cycle'.acquire = "some" /\ cycle'.proceed = "true"
                /\ cycle'.resets = 1 /\ cycle'.submits = 0]_vars
    /\ [](AbandonedPass =>
            /\ cycle.resets = 0
            /\ drawn[cycle.slot] # "unsignaled"
            /\ cycle.wait = "eSuccess" => drawn[cycle.slot] = "signaled"
            /\ pc \in {"main_loop", "exit"} =>
                  (drawn[cycle.slot] = "signaled" /\ m_frame_index = cycle.slot))
    /\ []((cycle.resets = 1 /\ cycle.submits = 0) =>
            (pc \in {"begin_frame", "render", "submit"}
             /\ drawn[m_frame_index] = "unsignaled"))
    /\ []((cycle.resets = 1 /\ cycle.submits = 1) =>
            drawn[cycle.slot] \in {"pending", "signaled"})

\* a pass of the final loop on slot 0 has been abandoned on a stale acquire
\* after both slots had been submitted, and the fence of slot 0 is signaled
C24_Witness ==
    /\ version = "final" /\ pc = "main_loop"
    /\ cycle.acquire = "none" /\ cycle.proceed = "false" /\ cycle.recreates = 1
    /\ cycle.slot = 0 /\ cycle.wait = "eSuccess" /\ drawn[0] = "signaled"
    /\ slots.prev = Some(0) /\ slots.last = Some(1)

\* present is called and returns in this step
PresentReturns ==
    /\ pc = "present" /\ cycle'.presents = cycle.presents + 1
    /\ call'.ret \in {"true", "false"}

\* what holds of a pass after its present, whichever way the decision to
\* recreate went: it calls recreate at most once, with the size read at its
\* start, and while it has not called it the device has not been waited on
AfterPresent ==
    cycle.presents = 1 =>
        /\ cycle.submits = 1 /\ cycle.recreates <= 1
        /\ cycle.recreates = 1 =>
              (call.op = "recreate" /\ call.size = m_framebuffer_size)
        /\ cycle.recreates = 0 => (call.op = "present" /\ ~call.wait_idle)
        /\ pc = "recreate_present" => cycle.recreates = 0

\* C26 as stated: after present, recreate is what the loop does next exactly
\* when present reported out-of-date or the size of the surface is no longer
\* the one read at the start of the pass.
C26_RecreateOnSizeChange ==
    /\ [][PresentReturns =>
            (pc' = "recreate_present" <=>
                (call'.ret = "false" \/ window_size # m_framebuffer_size))]_vars
    /\ []AfterPresent

\* C26: after present, recreate is what the loop does next exactly when present
\* reported out-of-date or the framebuffer size read at the start of the pass
\* differs from the extent of the swapchain; it is called with that size, and
\* a pass whose present succeeded with the two equal calls no recreate and
\* does not wait for the device.
C26_RecreateOnMismatch ==
    /\ [][PresentReturns =>
            (pc' = "recreate_present" <=>
                (call'.ret = "false" \/ m_framebuffer_size # get_size))]_vars
    /\ []AfterPresent

\* a pass of the final loop has presented successfully and then called recreate
\* with the size read at its start, which the swapchain did not have
C26_Witness ==
    /\ version = "final" /\ pc = "main_loop"
    /\ cycle.presents = 1 /\ cycle.recreates = 1 /\ cycle.acquire = "some"
    /\ call.op = "recreate" /\ call.ret = "true" /\ call.size = ivec2(1920, 1080)
    /\ m_framebuffer_size = ivec2(1920, 1080) /\ get_size = ivec2(1920, 1080)
    /\ has_value(slots.prev)

-----------------------------------------------------------------------------
(* Progress of the frame loop, checked under FairSpec. *)

\* a queue submission has been made with the fence of slot s
EverSubmitted(s) == slots.last = Some(s) \/ slots.prev = Some(s)

\* the wait was on a fence whose submission the queue had not finished
LateCompletion == cycle.wait = "eTimeout" /\ cycle.fence = "pending"

\* C14 as stated: the queue finishing every submission at some time is enough
\* for every wait on a slot's fence to return eSuccess.
C14_EveryWaitSucceeds == AtFenceWait ~> (cycle.wait = "eSuccess")

\* C14: if the queue finishes every submission before the 3 s of the wait on
\* its fence are over, every wait on a slot's fence returns eSuccess; the loop
\* never waits on a fence that was reset and has no submission behind it, and
\* the first wait on each slot finds the fence signaled, as it was created.
C14_NoFenceDeadlock ==
    /\ [](AtFenceWait => drawn[m_frame_index] \in {"signaled", "pending"})
    /\ []((AtFenceWait /\ ~EverSubmitted(m_frame_index))
              => drawn[m_frame_index] = "signaled")
    /\ ([]~LateCompletion => (AtFenceWait ~> (cycle.wait = "eSuccess")))

\* the loop has come back to slot 1 and its wait has returned eSuccess
C14_Witness ==
    /\ cycle.wait = "eSuccess" /\ cycle.fence = "signaled" /\ cycle.slot = 1
    /\ slots.prev = Some(1) /\ slots.last = Some(0)

\* the swapchain has been constructed, the window keeps the positive size z,
\* no call reports eErrorOutOfDateKHR, and the loop has not been left, neither
\* by the user nor by an exception or a failed assert
Settled(z) ==
    /\ m_swapchain # 0
    /\ window_size = z /\ z.x > 0 /\ z.y > 0
    /\ call.result # "eErrorOutOfDateKHR"
    /\ ~Terminated

\* C15: once the framebuffer size stays constant and positive and no call
\* reports out-of-date any more, passes that acquire, submit and present keep
\* coming, whatever the surface reports as its capabilities.
C15_RenderingResumes ==
    \A z \in WindowSizes : (<>[]Settled(z)) => []<>(cycle.presents = 1)

-----------------------------------------------------------------------------
(* Properties of class Swapchain, checked under SwapSpec. *)

NonPositive(size) == size.x <= 0 \/ size.y <= 0

\* C4: recreate called with a size whose width or height is <= 0 returns false and
\* changes nothing: m_ci (extent, image count), the swapchain handle, the images,
\* the views and the acquired index stay as they were, and the device is not
\* waited on.
C4_RecreateNonPositive ==
    [][(call'.op = "recreate" /\ NonPositive(call'.size))
         => (call'.ret = "false" /\ ~call'.wait_idle /\ UNCHANGED swapVars)]_vars

\* a live swapchain with an image acquired has just refused recreate(-1, -1)
C4_Witness ==
    /\ call.op = "recreate" /\ call.ret = "false" /\ call.size = ivec2(-1, -1)
    /\ m_swapchain # 0 /\ Len(m_images) > 0 /\ has_value(m_image_index)

\* C6: the acquired index becomes set only in a successful acquire_next_image, is
\* unset after an acquire that reported out-of-date, and is unset after every
\* present, whatever presentKHR returned, and after every recreate that
\* returned true.
C6_IndexLifecycle ==
    [][/\ (has_value(m_image_index') /\ m_image_index' # m_image_index)
            => (call'.op = "acquire_next_image" /\ call'.ret = "some"
                /\ call'.result \in {"eSuccess", "eSuboptimalKHR"})
       /\ (call'.op = "acquire_next_image" /\ call'.ret = "some")
            => has_value(m_image_index')
       /\ (call'.op = "acquire_next_image" /\ call'.result = "eErrorOutOfDateKHR")
            => ~has_value(m_image_index')
       /\ call'.op = "present" => ~has_value(m_image_index')
       /\ (call'.op = "recreate" /\ call'.ret = "true") => ~has_value(m_image_index')
      ]_vars

\* present has thrown on a fatal result and the index is cleared all the same
C6_Witness ==
    /\ call.op = "present" /\ call.ret = "throw" /\ call.result = "eErrorDeviceLost"
    /\ ~has_value(m_image_index)

\* C7: at acquire and present, eSuccess and eSuboptimalKHR let the call succeed,
\* eErrorOutOfDateKHR makes acquire return none and present return false without
\* an exception, every other result throws; present returns false exactly when
\* the result is eErrorOutOfDateKHR.
C7_ResultClassification ==
    /\ call.op = "acquire_next_image" =>
          /\ call.result \in {"eSuccess", "eSuboptimalKHR"} => call.ret = "some"
          /\ call.result = "eErrorOutOfDateKHR" => call.ret = "none"
          /\ call.result \notin {"eSuccess", "eSuboptimalKHR", "eErrorOutOfDateKHR"}
                => call.ret = "throw"
    /\ call.op = "present" =>
          /\ call.result \in {"eSuccess", "eSuboptimalKHR"} => call.ret = "true"
          /\ call.ret = "false" <=> call.result = "eErrorOutOfDateKHR"
          /\ call.result \notin {"eSuccess", "eSuboptimalKHR", "eErrorOutOfDateKHR"}
                => call.ret = "throw"

\* present has returned false on eErrorOutOfDateKHR
C7_Witness ==
    call.op = "present" /\ call.ret = "false" /\ call.result = "eErrorOutOfDateKHR"

\* C8: a recreate that returns true, called with the size and under the
\* capabilities of the previous recreate that returned true, leaves the extent as
\* it was, the image and view sequences of equal length and no acquired index.
C8_RecreateIdempotent ==
    [][(call'.op = "recreate" /\ call'.ret = "true" /\ call'.repeat)
         => /\ m_ci'.imageExtent = m_ci.imageExtent
            /\ Len(m_images') = Len(m_image_views')
            /\ Len(m_images') > 0
            /\ ~has_value(m_image_index')]_vars

\* recreate has been repeated with the same size on a swapchain that replaced
\* an earlier one
C8_Witness ==
    /\ call.op = "recreate" /\ call.ret = "true" /\ call.repeat
    /\ m_ci.oldSwapchain # 0 /\ call.size = ivec2(800, 600)

\* the unsigned order of the claim: a is below b as 32-bit unsigned numbers
Below(a, b) == (a >= 0 /\ b >= 0 /\ a < b) \/ (a < 0 /\ b < 0 /\ a < b) \/ (a >= 0 /\ b < 0)

\* v clamped into [lo, hi]
ClampedInto(v, lo, hi) ==
    CHOOSE r \in {v, lo, hi} :
        /\ Below(v, lo) => r = lo
        /\ Below(hi, v) => r = hi
        /\ (~Below(v, lo) /\ ~Below(hi, v)) => r = v

ClaimedExtent(caps, size) ==
    IF caps.currentExtent.width # limitless_v /\ caps.currentExtent.height # limitless_v
    THEN caps.currentExtent
    ELSE Extent2D(ClampedInto(size.x, caps.minImageExtent.width, caps.maxImageExtent.width),
                  ClampedInto(size.y, caps.minImageExtent.height, caps.maxImageExtent.height))

\* C9: the extent recreate sets is the surface's current extent when both of its
\* dimensions are below 0xFFFFFFFF, and otherwise the requested size clamped per
\* dimension into [minImageExtent, maxImageExtent]; a free extent with bounds
\* [1, 0xFFFFFFFF] and request (800,600) gives (800,600), a fixed current extent
\* (1920,1080) with request (300,300) gives (1920,1080).
C9_ExtentSelection ==
    (call.op = "recreate" /\ call.ret \in {"true", "abort"}) =>
        /\ m_ci.imageExtent = ClaimedExtent(call.caps, call.size)
        /\ (call.caps = FreeCaps /\ call.size = ivec2(800, 600))
              => m_ci.imageExtent = Extent2D(800, 600)
        /\ (call.caps = FixedCaps /\ call.size = ivec2(300, 300))
              => m_ci.imageExtent = Extent2D(1920, 1080)

\* a request above the surface's bounds has been clamped to maxImageExtent
C9_Witness ==
    /\ call.op = "recreate" /\ call.ret = "true"
    /\ call.caps = BoundedCaps /\ call.size = ivec2(1920, 1080)
    /\ m_ci.imageExtent = Extent2D(1000, 500)

ClaimedCount(caps) ==
    IF ~Below(caps.maxImageCount, caps.minImageCount)
    THEN ClampedInto(min_images_v, caps.minImageCount, caps.maxImageCount)
    ELSE IF Below(min_images_v, caps.minImageCount) THEN caps.minImageCount
         ELSE min_images_v

\* C10: the minimum image count recreate asks for is 3 clamped into
\* [minImageCount, maxImageCount] when maxImageCount >= minImageCount and
\* max(3, minImageCount) otherwise; with min = 1 and max = 2 the count is 2 and
\* recreate succeeds with that count.
C10_ImageCount ==
    (call.op = "recreate" /\ ~NonPositive(call.size) /\ call.ret # "throw") =>
        /\ m_ci.minImageCount = ClaimedCount(call.caps)
        /\ call.caps = TwoImageCaps
              => (m_ci.minImageCount = 2 /\ call.ret = "true"
                  /\ Len(m_images) >= m_ci.minImageCount)

\* C11: whenever recreate is past its size check, the condition of its assert
\* holds of the CreateInfo it has filled in, whatever the surface reports: the
\* extent is positive in both dimensions and minImageCount is at least 3.
C11_AssertHolds ==
    (call.op = "recreate" /\ ~NonPositive(call.size)) => RecreateAssert(m_ci)

\* the constructor has returned: the caller is between calls, or the last call
\* was made on the constructed object
Constructed ==
    \/ pc = "constructed"
    \/ call.op \in {"acquire_next_image", "present"}
    \/ (call.op = "recreate" /\ m_ci.oldSwapchain # 0)

\* C27: once the constructor has returned, after every recreate,
\* acquire_next_image and present, however it ended, m_images and
\* m_image_views have the same length and m_image_index, when set, is an index
\* into both.
C27_StructuralInvariant ==
    Constructed =>
        /\ Len(m_images) = Len(m_image_views)
        /\ has_value(m_image_index) =>
              (m_image_index[1] >= 0 /\ m_image_index[1] < Len(m_images)
               /\ m_image_index[1] < Len(m_image_views))

-----------------------------------------------------------------------------
(* Synchronisation with the device, checked under SyncSpec. *)

\* C16: the command buffer of a slot starts recording only after the wait on
\* the slot's fence returned eSuccess on a signaled fence, when no submission of
\* it is pending or executing; while it is recorded the slot has no submission
\* in flight; a slot has a submission in flight exactly while its fence is
\* pending, and only a recorded command buffer is submitted, so at most one
\* submission per slot is in flight.
C16_SlotOrdering ==
    /\ [](\A s \in Slots :
            /\ command_buffer[s].state \in InFlight <=> drawn[s] = "pending"
            /\ command_buffer[s].state = "recording" =>
                  /\ drawn[s] = "unsignaled" /\ cycle.slot = s
                  /\ cycle.wait = "eSuccess" /\ cycle.fence = "signaled")
    /\ [][\A s \in Slots :
            /\ (command_buffer'[s].state = "recording" /\ command_buffer[s].state # "recording")
                  => command_buffer[s].state \notin InFlight
            /\ (command_buffer'[s].state = "pending" /\ command_buffer[s].state # "pending")
                  => command_buffer[s].state = "recording"]_vars

\* slot 0 is recorded for the second time while the submission of slot 1 is
\* still in flight
C16_Witness ==
    /\ command_buffer[0].state = "recording" /\ command_buffer[1].state \in InFlight
    /\ slots.prev = Some(0) /\ slots.last = Some(1)
\* the queue takes up (layout transition) or completes (colour-attachment
\* writes) the submission of slot s in this step
Touches(s) ==
    \/ command_buffer[s].state = "pending" /\ command_buffer'[s].state = "executing"
    \/ command_buffer[s].state = "executing" /\ command_buffer'[s].state = "invalid"

\* the submission of slot s completes in this step
Finishes(s) ==
    command_buffer[s].state = "executing" /\ command_buffer'[s].state = "invalid"

\* C17: per presented image the acquire signal precedes the colour-attachment
\* writes, the writes precede the render-complete signal and that signal
\* precedes the present: a submission completes its writes only to an image the
\* presentation engine has released, completing them leaves the image rendered
\* and the slot's present semaphore signaled, and the engine presents only an
\* image that is rendered, on a signaled present semaphore.
C17_HappensBefore ==
    [][/\ \A s \in Slots :
            Finishes(s) =>
                /\ image_state[command_buffer[s].image].state = "acquired"
                /\ image_state'[command_buffer[s].image].state = "rendered"
                /\ present_sem'[s] = "signaled"
       /\ (present_queue # <<>> /\ present_queue' = Tail(present_queue)) =>
                /\ image_state[Head(present_queue).image].state = "rendered"
                /\ present_sem[Head(present_queue).slot] = "signaled"]_vars

\* C18: neither the layout transition nor the colour-attachment writes of a
\* submission execute before the presentation engine has released the image
\* and signaled the semaphore given to its acquire, with the barrier source
\* stage and the semaphore wait stage of the loop.
C18_ImageNotTouchedEarly ==
    [][\A s \in Slots :
          Touches(s) => image_state[command_buffer[s].image].state = "acquired"]_vars

\* C19: whenever the loop is about to call acquire_next_image with the draw
\* semaphore of the current slot, that semaphore is unsignaled with no signal
\* pending, and no submission that waits on it is pending or executing.
C19_AcquireSemaphoreOneShot ==
    pc = "acquire" =>
        /\ draw[m_frame_index] = "unsignaled"
        /\ command_buffer[m_frame_index].state \notin InFlight

\* C20: a submission never signals the present semaphore of its slot while the
\* signal of the slot's previous submission is still there, not yet consumed by
\* the present that waits on it.
C20_PresentSemaphoreOneShot ==
    [][\A s \in Slots : Finishes(s) => present_sem[s] = "unsignaled"]_vars

\* C25: the queue submission advances m_frame_index by one modulo the number
\* of slots, before present is called; after present, whatever it returned and
\* through the recreate that follows a stale one, m_frame_index stays one past
\* the slot of the pass; and the presentation request waits on the present
\* semaphore of the slot that was just submitted, not of the slot m_frame_index
\* names by then.
C25_AdvanceBeforePresent ==
    /\ [][cycle'.submits = cycle.submits + 1 =>
            /\ m_frame_index' = (m_frame_index + 1) % resource_buffering_v
            /\ cycle.presents = 0 /\ cycle'.presents = 0 /\ pc' = "present"]_vars
    /\ []((cycle.submits = 1 /\ InLoop) =>
            /\ m_frame_index = (cycle.slot + 1) % resource_buffering_v
            /\ slots.last = Some(cycle.slot))
    /\ [][Len(present_queue') > Len(present_queue) =>
            /\ pc = "present"
            /\ present_queue'[Len(present_queue')].slot = slots.last[1]
            /\ present_queue'[Len(present_queue')].slot # m_frame_index]_vars

\* present has reported out-of-date in a pass on slot 1: its request waits on
\* the present semaphore of slot 1 while m_frame_index is 0 again
C25_Witness ==
    /\ pc = "recreate_present" /\ call.op = "present" /\ call.ret = "false"
    /\ cycle.slot = 1 /\ m_frame_index = 0 /\ present_queue # <<>>
    /\ present_queue[Len(present_queue)].slot = 1

-----------------------------------------------------------------------------
(* The destruction of App, checked under ExitSpec. *)

\* C28: after the loop has ended, by its test or by an exception, the
\* destructor of m_waiter is the first to run, and when any other member is
\* destroyed (the fences and semaphores of the slots, the command pools, the
\* swapchain, the device) the device has been waited on: no fence is pending,
\* no command buffer is pending or executing and no presentation request is
\* outstanding.
C28_TeardownOrder ==
    /\ [](destroyed # <<>> => (destroyed[1] = "m_waiter" /\ pc \in {"exit", "fatal"}))
    /\ [][Len(destroyed') > Len(destroyed) /\ destroyed'[Len(destroyed')] # "m_waiter" =>
            /\ \E i \in DOMAIN destroyed : destroyed[i] = "m_waiter"
            /\ \A s \in Slots : drawn[s] # "pending" /\ command_buffer[s].state \notin InFlight
            /\ present_queue = <<>>]_vars

\* the loop was left by the exception of a fence wait that timed out on a
\* pending submission, and every member has been destroyed
C28_Witness ==
    /\ pc = "fatal" /\ cycle.wait = "eTimeout" /\ cycle.fence = "pending"
    /\ Len(destroyed) = Len(Members) /\ destroyed[Len(destroyed)] = "m_device"

-----------------------------------------------------------------------------
(* The view and instance buffers of the virtual frames, checked under SyncSpec *)

\* the CPU writes a view or instance buffer in this step
WritesBuffer == cycle'.wrote # <<>> /\ cycle'.wrote # cycle.wrote

\* C29: the CPU writes the view and instance buffers at the current slot index
\* only, after the fence of that slot has been observed signaled in this pass
\* and before the slot is submitted again, and no submission that is pending
\* or executing reads the buffer that is written; a submission reads the
\* buffers of its own slot.
C29_BufferWritesRaceFree ==
    /\ [][WritesBuffer =>
            /\ cycle'.wrote = <<m_frame_index>> /\ m_frame_index = cycle.slot
            /\ cycle.wait = "eSuccess" /\ cycle.fence = "signaled"
            /\ cycle.submits = 0
            /\ \A s \in DOMAIN command_buffer :
                  command_buffer[s].state \in InFlight =>
                      command_buffer[s].reads # cycle'.wrote]_vars
    /\ [](\A s \in DOMAIN command_buffer :
            (version = "final" /\ command_buffer[s].state \in InFlight)
                => command_buffer[s].reads = <<s>>)

\* the buffers of slot 0 have been written for a later frame while the
\* submission of slot 1, which reads the buffers of slot 1, is unfinished
C29_Witness ==
    /\ version = "final" /\ pc = "submit" /\ cycle.wrote = <<0>>
    /\ slots.first = Some(0)
    /\ command_buffer[1].state \in InFlight /\ command_buffer[1].reads = <<1>>
    /\ command_buffer[0].reads = <<0>>

-----------------------------------------------------------------------------
(* class CommandBlock: one block, its caller, and the queue behind it. *)

\* the longest submission, in seconds of queue time
MaxWork == 32

\* the calls of submit_and_wait one caller makes on a block
MaxCalls == 2

\* timeout_v of submit_and_wait, in seconds
timeout_v == 30

loopVars == <<ndebug, destroyed, surface_caps, swapVars, call, built, pc, appVars, syncVars>>

\* CommandBlock::CommandBlock: the command buffer is allocated and recording
\* begins; work is what the caller records into it
CommandBlock(work) ==
    [NoBlock EXCEPT !.pc = "constructed", !.m_command_buffer = "recording", !.work = work]

\* submit_and_wait up to its call of waitForFences
submit_and_wait ==
    /\ block.pc \in {"constructed", "returned"}
    /\ block.calls < MaxCalls
    /\ IF block.m_command_buffer = "null"
       THEN block' = [block EXCEPT !.pc = "returned", !.calls = @ + 1]
       ELSE block' = [block EXCEPT !.pc = "waitForFences", !.calls = @ + 1,
                                   !.m_command_buffer = "pending", !.fence = "unsignaled",
                                   !.submits = @ + 1, !.waited = 0, !.result = ""]
    /\ UNCHANGED loopVars

\* a second passes: the queue works on the submission, and a waitForFences
\* that is blocked has waited that much longer
second_passes ==
    /\ block.submits > 0 /\ block.work > 0
    /\ block.pc = "waitForFences" => block.waited < timeout_v
    /\ block' = [block EXCEPT !.work = @ - 1,
                              !.waited = IF block.pc = "waitForFences" THEN @ + 1 ELSE @]
    /\ UNCHANGED loopVars

\* the queue completes the submission and signals its fence, if that is still there
block_complete ==
    /\ block.submits > 0 /\ block.work = 0 /\ ~block.done
    /\ block' = [block EXCEPT !.done = TRUE,
                              !.fence = IF @ = "unsignaled" THEN "signaled" ELSE @,
                              !.m_command_buffer = IF @ = "pending" THEN "invalid" ELSE @]
    /\ UNCHANGED loopVars

\* submit_and_wait from the return of waitForFences: the message on a result
\* other than eSuccess, m_command_buffer.reset(), and the end of the scope of
\* the fence
waitForFences_returns ==
    /\ block.pc = "waitForFences"
    /\ \/ block.fence = "signaled" /\ block' = [block EXCEPT !.result = "eSuccess",
                                                  !.m_command_buffer = "null",
                                                  !.fence = "", !.pc = "returned"]
       \/ /\ block.fence = "unsignaled" /\ block.waited = timeout_v
          /\ block' = [block EXCEPT !.result = "eTimeout", !.m_command_buffer = "null",
                                    !.fence = "", !.pc = "returned"]
    /\ UNCHANGED loopVars

\* waitForFences ends in an error result, which vulkan.hpp throws: the fence
\* goes out of scope and m_command_buffer is left as it is
waitForFences_throws ==
    /\ block.pc = "waitForFences" /\ block.fence = "unsignaled"
    /\ block' = [block EXCEPT !.result = "eErrorDeviceLost", !.fence = "", !.pc = "thrown"]
    /\ UNCHANGED loopVars

\* a block that create_command_block has just returned, before the loop runs
BlockInit ==
    /\ ndebug = FALSE
    /\ surface_caps = FreeCaps
    /\ m_ci = [imageExtent |-> Extent2D(0, 0), minImageCount |-> 0, oldSwapchain |-> 0]
    /\ m_swapchain = 0
    /\ m_images = <<>>
    /\ m_image_views = <<>>
    /\ m_image_index = None
    /\ call = Call("", "")
    /\ built = [size |-> ivec2(0, 0), caps |-> surface_caps]
    /\ pc = "create_swapchain"
    /\ version = "final"
    /\ window_size = ivec2(800, 600)
    /\ m_framebuffer_size = ivec2(0, 0)
    /\ m_frame_index = 0
    /\ drawn = [s \in 0 .. resource_buffering_v - 1 |-> fence_create_info_v]
    /\ cycle = NoCycle
    /\ slots = [first |-> None, prev |-> None, last |-> None]
    /\ SyncObjectsCreated
    /\ destroyed = <<>>
    /\ \E work \in 0 .. MaxWork : block = CommandBlock(work)

BlockNext ==
    \/ submit_and_wait
    \/ second_passes
    \/ block_complete
    \/ waitForFences_returns
    \/ waitForFences_throws

BlockSpec == BlockInit /\ [][BlockNext]_vars

\* C30: once submit_and_wait has returned and the command buffer is freed, the
\* work it submitted has completed on the queue, whether waitForFences
\* answered eSuccess or not; and a block submits at most once, a second call
\* submitting nothing.
C30_WaitsForCompletion ==
    /\ (block.pc = "returned" /\ block.m_command_buffer = "null" /\ block.submits > 0)
          => block.done
    /\ block.submits <= 1

====
